---- MODULE Spec2Model ----
(***************************************************************************)
(* Model of the handwriting extraction pipeline of backend/agent.py:       *)
(* HandwritingExtractionAgent._parse_json_response (a pure function on     *)
(* text), _translate_json_to_english and extract_handwriting_huggingface   *)
(* (one run of the orchestrator, as a state machine).                      *)
(*                                                                         *)
(* Text is a sequence of one-character strings.  A decoded JSON value is a *)
(* record [kind, text, items]: kind names the Python type, text holds the  *)
(* characters of a scalar (or of a member's key), items the children.      *)
(***************************************************************************)
EXTENDS Integers, Sequences, FiniteSets, TLC

VARIABLES
    \* ---- _parse_json_response applied to one text (SpecParse) ----
    p_text,             \* the argument text
    p_pc,               \* "call" before the call, "returned" after it
    p_out,              \* what the call produced: [raised, value]
    \* ---- one run of extract_handwriting (Spec) ----
    hf_client,          \* self.hf_client is set (HF_TOKEN configured)
    groq_client,        \* self.groq_client is set (GROQ_API_KEY configured)
    langfuse,           \* self.langfuse is set (trace sink configured)
    enable_preprocessing, \* self.enable_preprocessing
    image,              \* the file at image_path: [decodable]
    filename,           \* argument filename
    language,           \* argument language (text)
    parent_trace,       \* argument parent_trace is given
    pc,                 \* position of the run in extract_handwriting_huggingface
    prompt,             \* local prompt: "None" until the f-string is built
    trace,              \* local trace: "None" or the span handle
    generation,         \* local generation: "None" or the generation handle
    image_data,         \* what encode_image produced for the request
    extracted_text,     \* completion.choices[0].message.content
    parsed,             \* _parse_json_response(extracted_text), as first computed
    structured_data,    \* local structured_data
    exc,                \* the exception caught at line 299: [type, msg]
    result,             \* the returned envelope (NoResult until the return)
    calls,              \* log of provider calls, in order
    translation,        \* outcome of the translation call in this run
    sink,               \* log of trace-sink calls, in order
    image_reads,        \* number of times the image file was opened
    preprocess_raised,  \* a step of preprocess_image raised inside encode_image
    translated_text,    \* response.choices[0].message.content of the translation call
    \* ---- preprocess_image applied to one image size (SpecImage) ----
    img_w,              \* width of the image file
    img_h,              \* height of the image file
    img_pc,             \* "call" before the call, "returned", "raised" or "encoded" after it
    out_size,           \* size of the returned image: [w, h]
    img_mode,           \* img.mode of the image file
    img_truncated,      \* the header opens but the pixel data fails to load
    img_preprocessing,  \* self.enable_preprocessing for the encode_image call
    sent,               \* what encode_image encoded: [bytes, w, h]
    \* ---- one request to POST /upload (SpecUpload) ----
    u_pc,               \* position of the request in upload_file
    agent,              \* the global agent is set (lifespan built it)
    langfuse_client,    \* the global langfuse_client is set
    u_name,             \* file.filename of the upload
    u_size,             \* len(contents)
    u_files,            \* names of the files in the uploads directory
    u_writes,           \* number of files the request wrote there
    u_rows,             \* rows of the form_data table
    u_status,           \* HTTP status of the response, 0 before it
    u_body,             \* content of a 200 response, or the detail of an error
    u_db,               \* how saving the row went: "none", "saved", "commit_raised", "refresh_raised"
    u_removed,          \* how deleting the written file went: "none", "ok", "raised"
    \* ---- one request through LangfuseMiddleware.dispatch (SpecDispatch) ----
    mw_langfuse,        \* self.langfuse of the middleware is set
    mw_pc,              \* position of the request in dispatch
    mw_request,         \* the request: [method, path]
    mw_trace,           \* the local trace is set
    mw_handler_runs,    \* number of times call_next(request) was awaited
    mw_handled,         \* what call_next gave: [kind, status]
    mw_out,             \* what dispatch gave its caller: [kind, status]
    mw_sink,            \* the trace-sink calls of dispatch, in order
    \* ---- the application from module import to serving (SpecApp) ----
    app_pc,             \* "import", "startup" or "serving"
    app_credentials,    \* LANGFUSE_PUBLIC_KEY and LANGFUSE_SECRET_KEY are set
    app_middleware,     \* LangfuseMiddleware was added to the application
    app_served,         \* the requests served so far: [request, tracked]
    \* ---- a sequence of requests to /forms (SpecForms) ----
    f_ops,              \* number of requests answered so far
    f_op,               \* the last request: [name, id, form_name, data, dead]
    f_status,           \* HTTP status of the last response, 0 before the first
    f_form,             \* the form in the last response, NoForm if it has none
    f_list,             \* the list in the last response of GET /forms
    f_before,           \* rows of the form_data table before the last request
    f_live,             \* the forms the responses so far say are stored
    f_ever,             \* the ids that create responses have returned
    f_gone,             \* the ids that delete responses have confirmed
    f_sink,             \* the events sent to the trace sink, in order
    \* ---- /upload requests in flight on one event loop (SpecConcurrent) ----
    c_pc,               \* position of each request in upload_file
    c_loop,             \* the request whose handler holds the event loop, 0 if none
    c_file,             \* whose bytes uploads/<filename> holds, 0 if it does not exist
    c_read,             \* whose bytes the extraction of each request read, 0 before
    c_status            \* HTTP status of each response, 0 before it

parse_vars == <<p_text, p_pc, p_out>>

run_vars == <<hf_client, groq_client, langfuse, enable_preprocessing, image,
              filename, language, parent_trace, pc, prompt, trace, generation,
              image_data, extracted_text, parsed, structured_data, exc, result,
              calls, translation, sink, image_reads, preprocess_raised,
              translated_text>>

image_vars == <<img_w, img_h, img_pc, out_size, img_mode, img_truncated,
                img_preprocessing, sent>>

upload_vars == <<u_pc, agent, langfuse_client, u_name, u_size, u_files, u_writes,
                 u_rows, u_status, u_body, u_db, u_removed>>

mw_vars == <<mw_langfuse, mw_pc, mw_request, mw_trace, mw_handler_runs, mw_handled,
             mw_out, mw_sink>>

app_vars == <<app_pc, app_credentials, app_middleware, app_served>>

form_vars == <<f_ops, f_op, f_status, f_form, f_list, f_before, f_live, f_ever,
               f_gone, f_sink>>

conc_vars == <<c_pc, c_loop, c_file, c_read, c_status>>

service_vars == <<form_vars, conc_vars>>

web_vars == <<mw_vars, app_vars, service_vars>>

vars == <<parse_vars, run_vars, image_vars, upload_vars, web_vars>>

(***************************************************************************)
(* Bounds of the model.                                                    *)
(***************************************************************************)
\* longest text enumerated exhaustively over CoreAlphabet
MaxLen == 3
\* longest run of whitespace put around a text and between a fence and its body
MaxPad == 1

\* most requests the application serves after its start
MaxRequests == 2

\* every image side from 1 to MaxSide is enumerated, next to the landmark sides
MaxSide == 64

(***************************************************************************)
(* Text helpers (Python str methods).                                      *)
(***************************************************************************)
Chars(str) == [i \in 1..Len(str) |-> SubSeq(str, i, i)]

\* the whitespace characters of the modelled alphabet; both are whitespace
\* for str.strip() and for the JSON decoder
IsSpace(c) == c \in {" ", "\n"}

SetMin(S) == CHOOSE x \in S : \A y \in S : x <= y

SetMax(S) == CHOOSE x \in S : \A y \in S : y <= x

\* str.strip()
Strip(s) ==
    LET keep == {i \in 1..Len(s) : ~IsSpace(s[i])}
    IN  IF keep = {} THEN <<>> ELSE SubSeq(s, SetMin(keep), SetMax(keep))

\* str.startswith(p)
StartsWith(s, p) == Len(s) >= Len(p) /\ SubSeq(s, 1, Len(p)) = p

\* str.endswith(p)
EndsWith(s, p) == Len(s) >= Len(p) /\ SubSeq(s, Len(s) - Len(p) + 1, Len(s)) = p

\* s[n:]
DropFirst(s, n) == SubSeq(s, n + 1, Len(s))

\* s[:-n], n > 0
DropLast(s, n) == SubSeq(s, 1, Len(s) - n)

\* str.lower() on the capital letters of the modelled languages and file names
LowerChar(c) ==
    CASE c = "E" -> "e"
      [] c = "N" -> "n"
      [] c = "G" -> "g"
      [] c = "L" -> "l"
      [] c = "I" -> "i"
      [] c = "S" -> "s"
      [] c = "H" -> "h"
      [] c = "P" -> "p"
      [] c = "J" -> "j"
      [] OTHER -> c

Lower(s) == [i \in 1..Len(s) |-> LowerChar(s[i])]

\* sub in str
Contains(str, sub) ==
    \E i \in 1..(Len(str) - Len(sub) + 1) : SubSeq(str, i, i + Len(sub) - 1) = sub

\* the grave accent U+0060, which a TLA+ string literal cannot hold
Backtick == "BACKTICK"

\* the markdown fence of line 342 and its json-tagged opener of line 340
Fence == <<Backtick, Backtick, Backtick>>

FenceJson == Fence \o Chars("json")

\* the slice widths of lines 341, 343 and 345
JsonFenceLen == 7

FenceLen == 3

(***************************************************************************)
(* json.loads on texts over the modelled alphabet: objects, arrays,        *)
(* strings without escapes, integers and null, with whitespace allowed     *)
(* around every token.  A failure is json.JSONDecodeError.                 *)
(***************************************************************************)
JNull == [kind |-> "null", text |-> <<>>, items |-> <<>>]

JNumber(t) == [kind |-> "number", text |-> t, items |-> <<>>]

JString(t) == [kind |-> "string", text |-> t, items |-> <<>>]

JArray(vs) == [kind |-> "array", text |-> <<>>, items |-> vs]

JMember(k, v) == [kind |-> "member", text |-> k, items |-> <<v>>]

JObject(ms) == [kind |-> "object", text |-> <<>>, items |-> ms]

NoParse == [ok |-> FALSE, val |-> JNull, next |-> 0]

Parsed(v, n) == [ok |-> TRUE, val |-> v, next |-> n]

IsDigit(c) == c \in {"0", "1"}

\* first position >= i that holds no whitespace (Len(s) + 1 at the end)
SkipWs(s, i) ==
    SetMin({j \in i..(Len(s) + 1) : j = Len(s) + 1 \/ ~IsSpace(s[j])})

\* dict[key] = value: a repeated key keeps its place and takes the last value
DictSet(ms, k, v) ==
    IF \E i \in 1..Len(ms) : ms[i].text = k
    THEN [i \in 1..Len(ms) |-> IF ms[i].text = k THEN JMember(k, v) ELSE ms[i]]
    ELSE Append(ms, JMember(k, v))

\* a string literal starting at the quote s[i]; control characters are refused
ParseString(s, i) ==
    LET close == {j \in (i + 1)..Len(s) : s[j] = "\""}
    IN  IF close = {} THEN NoParse
        ELSE LET j == SetMin(close)
                 body == SubSeq(s, i + 1, j - 1)
             IN  IF \E k \in 1..Len(body) : body[k] = "\n" THEN NoParse
                 ELSE Parsed(JString(body), j + 1)

\* an integer literal starting at s[i]: -?(0|[1-9][0-9]*)
ParseNumber(s, i) ==
    LET d == IF s[i] = "-" THEN i + 1 ELSE i
    IN  IF d > Len(s) \/ ~IsDigit(s[d]) THEN NoParse
        ELSE IF s[d] = "0" THEN Parsed(JNumber(SubSeq(s, i, d)), d + 1)
        ELSE LET e == SetMin({j \in (d + 1)..(Len(s) + 1) :
                                 j = Len(s) + 1 \/ ~IsDigit(s[j])})
             IN  Parsed(JNumber(SubSeq(s, i, e - 1)), e)

RECURSIVE ParseValue(_, _), ParseMembers(_, _, _), ParseElements(_, _, _)

\* the value starting at s[i] (i is past any whitespace)
ParseValue(s, i) ==
    IF i > Len(s) THEN NoParse
    ELSE CASE s[i] = "{" ->
                  LET j == SkipWs(s, i + 1)
                  IN  IF j <= Len(s) /\ s[j] = "}"
                      THEN Parsed(JObject(<<>>), j + 1)
                      ELSE ParseMembers(s, j, <<>>)
           [] s[i] = "[" ->
                  LET j == SkipWs(s, i + 1)
                  IN  IF j <= Len(s) /\ s[j] = "]"
                      THEN Parsed(JArray(<<>>), j + 1)
                      ELSE ParseElements(s, j, <<>>)
           [] s[i] = "\"" -> ParseString(s, i)
           [] s[i] = "-" \/ IsDigit(s[i]) -> ParseNumber(s, i)
           [] s[i] = "n" ->
                  IF i + 3 <= Len(s) /\ SubSeq(s, i, i + 3) = Chars("null")
                  THEN Parsed(JNull, i + 4) ELSE NoParse
           [] OTHER -> NoParse

\* "key" : value , ... } with the key's quote expected at s[i]
ParseMembers(s, i, acc) ==
    IF i > Len(s) \/ s[i] # "\"" THEN NoParse
    ELSE LET k == ParseString(s, i)
         IN  IF ~k.ok THEN NoParse
             ELSE LET c == SkipWs(s, k.next)
                  IN  IF c > Len(s) \/ s[c] # ":" THEN NoParse
                      ELSE LET v == ParseValue(s, SkipWs(s, c + 1))
                           IN  IF ~v.ok THEN NoParse
                               ELSE LET e == SkipWs(s, v.next)
                                        ms == DictSet(acc, k.val.text, v.val)
                                    IN  IF e > Len(s) THEN NoParse
                                        ELSE IF s[e] = "}" THEN Parsed(JObject(ms), e + 1)
                                        ELSE IF s[e] = ","
                                             THEN ParseMembers(s, SkipWs(s, e + 1), ms)
                                        ELSE NoParse

\* value , ... ] with the first value expected at s[i]
ParseElements(s, i, acc) ==
    LET v == ParseValue(s, i)
    IN  IF ~v.ok THEN NoParse
        ELSE LET e == SkipWs(s, v.next)
                 vs == Append(acc, v.val)
             IN  IF e > Len(s) THEN NoParse
                 ELSE IF s[e] = "]" THEN Parsed(JArray(vs), e + 1)
                 ELSE IF s[e] = "," THEN ParseElements(s, SkipWs(s, e + 1), vs)
                 ELSE NoParse

\* json.loads(s): one value, whitespace around it, nothing after it
JsonLoads(s) ==
    LET v == ParseValue(s, SkipWs(s, 1))
    IN  IF v.ok /\ SkipWs(s, v.next) = Len(s) + 1 THEN v ELSE NoParse

(***************************************************************************)
(* json.dumps with its default separators on the values json.loads gives.  *)
(***************************************************************************)
\* the escapes of a string literal
EscapeChar(c) ==
    CASE c = "\"" -> <<"\\", "\"">>
      [] c = "\\" -> <<"\\", "\\">>
      [] c = "\n" -> <<"\\", "n">>
      [] OTHER -> <<c>>

RECURSIVE Escape(_)
Escape(t) == IF t = <<>> THEN <<>> ELSE EscapeChar(Head(t)) \o Escape(Tail(t))

Quoted(t) == <<"\"">> \o Escape(t) \o <<"\"">>

RECURSIVE JsonDumps(_), DumpItems(_)
JsonDumps(v) ==
    CASE v.kind = "null" -> Chars("null")
      [] v.kind = "number" -> v.text
      [] v.kind = "string" -> Quoted(v.text)
      [] v.kind = "array" -> <<"[">> \o DumpItems(v.items) \o <<"]">>
      [] v.kind = "object" -> <<"{">> \o DumpItems(v.items) \o <<"}">>
      [] v.kind = "member" -> Quoted(v.text) \o Chars(": ") \o JsonDumps(v.items[1])

\* the items of an array or the members of an object, joined by ", "
DumpItems(vs) ==
    IF vs = <<>> THEN <<>>
    ELSE JsonDumps(Head(vs))
           \o (IF Tail(vs) = <<>> THEN <<>> ELSE Chars(", ") \o DumpItems(Tail(vs)))

(***************************************************************************)
(* HandwritingExtractionAgent._parse_json_response                         *)
(***************************************************************************)
RawTextKey == Chars("raw_text")

\* {"raw_text": t}
RawText(t) == JObject(<<JMember(RawTextKey, JString(t))>>)

\* lines 340-341
StripJsonFence(s) == IF StartsWith(s, FenceJson) THEN DropFirst(s, JsonFenceLen) ELSE s

\* a parser that leaves a bare fence opener in place
StripOpenFence_Never(s) == s

\* lines 342-343
StripOpenFence(s) == IF StartsWith(s, Fence) THEN DropFirst(s, FenceLen) ELSE s

\* a closing fence sliced off one character too wide
StripCloseFence_OffByOne(s) == IF EndsWith(s, Fence) THEN DropLast(s, FenceLen + 1) ELSE s

\* lines 344-345
StripCloseFence(s) == IF EndsWith(s, Fence) THEN DropLast(s, FenceLen) ELSE s

\* lines 337-346: the text handed to json.loads
Unfenced(text) == Strip(StripCloseFence(StripOpenFence(StripJsonFence(Strip(text)))))

\* an except clause that does not match the decoder's exception
OnDecodeError_Uncaught(t) == [raised |-> TRUE, value |-> JNull]

\* lines 350-351: the except clause catches json.JSONDecodeError
OnDecodeError(t) == [raised |-> FALSE, value |-> RawText(t)]

\* lines 335-351
parse_json_response(text) ==
    LET t == Unfenced(text)
        r == JsonLoads(t)
    IN  IF r.ok THEN [raised |-> FALSE, value |-> r.val] ELSE OnDecodeError(t)

(***************************************************************************)
(* The texts the parser is applied to.                                     *)
(***************************************************************************)
CoreAlphabet == {" ", Backtick, "{", "}", "[", "]", "1", "\""}

\* every text of at most MaxLen characters over CoreAlphabet
ShortTexts == UNION {[1..n -> CoreAlphabet] : n \in 0..MaxLen}

\* a run of k whitespace characters, newline first
WsRun(k) == [i \in 1..k |-> IF i % 2 = 1 THEN "\n" ELSE " "]

Pads == {WsRun(k) : k \in 0..MaxPad}

ObjectBodies ==
    { Chars("{}"),
      Chars("{\"a\":1}"),
      Chars("{\"a\": {\"n\": null}}"),
      Chars("{\"a\":[1,\"a\"],\"n\":-10}"),
      Chars("{\"a\":1,\"a\":\"o\"}") }

OtherJsonBodies ==
    { Chars("[]"), Chars("[1]"), Chars("1"), Chars("\"a\""), Chars("null") }

NonJsonBodies ==
    { <<>>, Chars("no json"), Chars("json"), Chars("{\"a\":1"),
      Chars("{\"a\":1,}"), Chars("{a:1}") }

Bodies == ObjectBodies \cup OtherJsonBodies \cup NonJsonBodies

Openers == {<<>>, FenceJson, Fence, FenceJson \o Fence}

Closers == {<<>>, Fence}

\* pad opener pad body pad closer pad
FencedTexts ==
    { l \o o \o a \o b \o c \o e \o t :
        l \in Pads, o \in Openers, a \in Pads, b \in Bodies,
        c \in Pads, e \in Closers, t \in Pads }

Texts == ShortTexts \cup FencedTexts

(***************************************************************************)
(* SpecParse: _parse_json_response called once on a text of Texts.         *)
(***************************************************************************)
NoOutput == [raised |-> FALSE, value |-> JNull]

NoResult == <<>>

\* the run variables while no run is modelled
RunIdle ==
    /\ hf_client = FALSE /\ groq_client = FALSE /\ langfuse = FALSE
    /\ enable_preprocessing = FALSE /\ image = [decodable |-> TRUE]
    /\ filename = "" /\ language = <<>> /\ parent_trace = FALSE
    /\ pc = "idle" /\ prompt = "None" /\ trace = "None" /\ generation = "None"
    /\ image_data = "None" /\ extracted_text = <<>> /\ parsed = JNull
    /\ structured_data = JNull /\ exc = [type |-> "", msg |-> ""]
    /\ result = NoResult /\ calls = <<>> /\ translation = "none"
    /\ sink = <<>> /\ image_reads = 0
    /\ preprocess_raised = FALSE /\ translated_text = <<>>

\* the parser variables while no parser call is modelled
ParseIdle == p_text = <<>> /\ p_pc = "idle" /\ p_out = NoOutput

\* an answer of a handler or of dispatch that is not there yet
NoAnswer == [kind |-> "none", status |-> 0]

\* the middleware variables while no dispatch call is modelled
MiddlewareIdle ==
    /\ mw_langfuse = FALSE /\ mw_pc = "idle"
    /\ mw_request = [method |-> "", path |-> ""]
    /\ mw_trace = FALSE /\ mw_handler_runs = 0
    /\ mw_handled = NoAnswer /\ mw_out = NoAnswer /\ mw_sink = <<>>

\* the application variables while no application start is modelled
AppIdle ==
    /\ app_pc = "idle" /\ app_credentials = FALSE /\ app_middleware = FALSE
    /\ app_served = <<>>

\* a response without a form
NoForm == [id |-> 0, form_name |-> "", data |-> ""]

\* no request to /forms yet
NoOp == [name |-> "none", id |-> 0, form_name |-> "", data |-> "", dead |-> FALSE]

\* the /forms variables while no request to /forms is modelled
FormsIdle ==
    /\ f_ops = 0 /\ f_op = NoOp /\ f_status = 0 /\ f_form = NoForm
    /\ f_list = <<>> /\ f_before = <<>> /\ f_live = {} /\ f_ever = {}
    /\ f_gone = {} /\ f_sink = <<>>

\* the variables of concurrent uploads while none is modelled
ConcurrentIdle ==
    /\ c_pc = <<>> /\ c_loop = 0 /\ c_file = 0 /\ c_read = <<>> /\ c_status = <<>>

ServiceIdle == FormsIdle /\ ConcurrentIdle

WebIdle == MiddlewareIdle /\ AppIdle /\ ServiceIdle

\* the image variables while no preprocess_image call is modelled
ImageIdle ==
    /\ img_w = 0 /\ img_h = 0 /\ img_pc = "idle" /\ out_size = [w |-> 0, h |-> 0]
    /\ img_mode = "RGB" /\ img_truncated = FALSE /\ img_preprocessing = FALSE
    /\ sent = [bytes |-> "none", w |-> 0, h |-> 0]

\* the request variables while no upload is modelled
UploadIdle ==
    /\ u_pc = "idle" /\ agent = FALSE /\ langfuse_client = FALSE
    /\ u_name = "" /\ u_size = 0 /\ u_files = {} /\ u_writes = 0
    /\ u_rows = <<>> /\ u_status = 0 /\ u_body = <<>>
    /\ u_db = "none" /\ u_removed = "none"

InitParse ==
    /\ p_text \in Texts
    /\ p_pc = "call"
    /\ p_out = NoOutput
    /\ RunIdle
    /\ ImageIdle
    /\ UploadIdle
    /\ WebIdle

\* the call _parse_json_response(p_text)
ParseCall ==
    /\ p_pc = "call"
    /\ p_out' = parse_json_response(p_text)
    /\ p_pc' = "returned"
    /\ UNCHANGED <<p_text, run_vars, image_vars, upload_vars, web_vars>>

NextParse == ParseCall

SpecParse == InitParse /\ [][NextParse]_vars

(***************************************************************************)
(* Spec: one run of extract_handwriting(image_path, filename, language,    *)
(* parent_trace).  Each provider call returns a text or raises; each       *)
(* trace-sink call returns or raises.                                      *)
(***************************************************************************)
Languages == {Chars("English"), Chars("english"), Chars("ENGLISH"), Chars("Spanish")}

Filenames == {"test.jpg", "form.png"}

\* what a provider may answer
RunTexts ==
    { FenceJson \o Chars("\n{\"a\":1}\n") \o Fence,
      Chars("{\"n\":\"o\"}"),
      Chars("no json"),
      Fence \o Chars("\nno\n") \o Fence,
      Chars("1") }

\* what a provider call may raise
Exceptions ==
    { [type |-> "TimeoutError", msg |-> "timed out"],
      [type |-> "Exception", msg |-> "API Error"],
      [type |-> "RuntimeError", msg |-> "model not initialized"] }

\* one call to the trace sink: the method, the record it is about, whether it returned
SinkCall(op, on, ok) == [op |-> op, on |-> on, ok |-> ok]

\* the logs a sequence of sink calls can leave when each call may raise and a
\* raise skips the rest: every proper prefix followed by one failed call, or all
RECURSIVE Attempts(_)
Attempts(cs) ==
    IF cs = <<>> THEN {[log |-> <<>>, ok |-> TRUE]}
    ELSE {[log |-> <<SinkCall(Head(cs)[1], Head(cs)[2], FALSE)>>, ok |-> FALSE]}
         \cup {[log |-> <<SinkCall(Head(cs)[1], Head(cs)[2], TRUE)>> \o r.log, ok |-> r.ok] :
                 r \in Attempts(Tail(cs))}

\* self._parse_json_response(text) for each text a provider can answer in a
\* run (lines 262 and 417), computed once
ParseOf == [t \in RunTexts |-> parse_json_response(t)]

\* len(x) is defined: int and None have no len()
HasLen(v) == v.kind \in {"object", "array", "string"}

\* the language compared without lower()
NeedsTranslation_CaseSensitive(lang, groq) == lang # Chars("English") /\ groq

\* line 265: language.lower() != "english" and self.groq_client
NeedsTranslation(lang, groq) == Lower(lang) # Chars("english") /\ groq

\* line 278
SuccessMessage(lang) ==
    "Handwriting extracted successfully using HuggingFace"
        \o (IF Lower(lang) # Chars("english") THEN " and translated to English" ELSE "")

\* lines 134-138
NotInitializedEnvelope ==
    [success |-> FALSE, error |-> "HuggingFace client not initialized", prompt |-> "None"]

\* lines 273-279
SuccessEnvelope(fn, data, pr, lang) ==
    [success |-> TRUE, filename |-> fn, extracted_data |-> data, prompt |-> pr,
     message |-> SuccessMessage(lang)]

\* an error field that carries the exception's type name before its message
ErrorEnvelope_TypePrefixed(fn, e, pr) ==
    [success |-> FALSE, filename |-> fn, error |-> e.type \o ": " \o e.msg,
     message |-> "Failed to extract handwriting using HuggingFace", prompt |-> pr,
     metadata |-> [error_type |-> e.type]]

\* a failure envelope that also carries an extracted_data key
ErrorEnvelope_WithData(fn, e, pr) ==
    [success |-> FALSE, filename |-> fn, error |-> e.msg, extracted_data |-> JNull,
     message |-> "Failed to extract handwriting using HuggingFace", prompt |-> pr,
     metadata |-> [error_type |-> e.type]]

\* lines 303-312
ErrorEnvelope(fn, e, pr) ==
    [success |-> FALSE, filename |-> fn, error |-> e.msg,
     message |-> "Failed to extract handwriting using HuggingFace", prompt |-> pr,
     metadata |-> [error_type |-> e.type]]

Init ==
    /\ ParseIdle
    /\ ImageIdle
    /\ UploadIdle
    /\ WebIdle
    /\ hf_client \in BOOLEAN
    /\ groq_client \in BOOLEAN
    /\ langfuse \in BOOLEAN
    /\ enable_preprocessing \in BOOLEAN
    /\ image \in [decodable : BOOLEAN]
    /\ filename \in Filenames
    /\ language \in Languages
    /\ parent_trace \in BOOLEAN
    /\ pc = "entry"
    /\ prompt = "None"
    /\ trace = "None"
    /\ generation = "None"
    /\ image_data = "None"
    /\ extracted_text = <<>>
    /\ parsed = JNull
    /\ structured_data = JNull
    /\ exc = [type |-> "", msg |-> ""]
    /\ result = NoResult
    /\ calls = <<>>
    /\ translation = "none"
    /\ sink = <<>>
    /\ image_reads = 0
    /\ preprocess_raised = FALSE
    /\ translated_text = <<>>

config_vars == <<hf_client, groq_client, langfuse, enable_preprocessing, image,
                 filename, language, parent_trace>>

\* a run that does not look at the vision client before starting
ClientMissing_Never(client) == FALSE

\* line 133: if not self.hf_client
ClientMissing(client) == ~client

\* lines 133-143: the guard on the vision client, then the locals
Entry ==
    /\ pc = "entry"
    /\ IF ClientMissing(hf_client)
       THEN /\ result' = NotInitializedEnvelope
            /\ pc' = "done"
       ELSE /\ pc' = "open_image"
            /\ UNCHANGED result
    /\ UNCHANGED <<parse_vars, image_vars, upload_vars, web_vars, config_vars,
                   preprocess_raised, translated_text, prompt, trace, generation, image_data,
                   extracted_text, parsed, structured_data, exc, calls,
                   translation, sink, image_reads>>

\* what encode_image can hand back (lines 93-124): the preprocessed JPEG or,
\* when a step raised, the file's bytes; with preprocessing off the file's
\* bytes or the image resized to the 28 pixel floor
Encodings(preprocessing) ==
    IF preprocessing THEN {"preprocessed_jpeg", "original_bytes"}
    ELSE {"original_bytes", "resized_jpeg"}

\* an encode_image whose except clause lets the exception through
OnPreprocessError_Propagates == "raise"

\* lines 101-104: a step of preprocess_image or the JPEG save raised; the
\* file's own bytes are read instead
OnPreprocessError == "original_bytes"

\* lines 93-124: what encode_image hands back, given whether a step of
\* preprocess_image raised
EncodeImage(preprocessing, raised) ==
    IF preprocessing
    THEN {IF raised THEN OnPreprocessError ELSE "preprocessed_jpeg"}
    ELSE Encodings(FALSE)

\* lines 145-178: Image.open for the metadata, encode_image, the prompt
OpenImage ==
    /\ pc = "open_image"
    /\ IF image.decodable
       THEN \E r \in (IF enable_preprocessing THEN BOOLEAN ELSE {FALSE}) :
            \E d \in EncodeImage(enable_preprocessing, r) :
              /\ preprocess_raised' = r
              /\ image_reads' = image_reads + 2
              /\ IF d = "raise"
                 THEN /\ exc' = [type |-> "OSError", msg |-> "image file is truncated"]
                      /\ pc' = "except"
                      /\ UNCHANGED <<image_data, prompt>>
                 ELSE /\ image_data' = d
                      /\ prompt' = "prompt"
                      /\ pc' = "create_trace"
                      /\ UNCHANGED exc
       ELSE /\ exc' = [type |-> "UnidentifiedImageError", msg |-> "cannot identify image file"]
            /\ image_reads' = image_reads + 1
            /\ pc' = "except"
            /\ UNCHANGED <<image_data, prompt, preprocess_raised>>
    /\ UNCHANGED <<parse_vars, image_vars, upload_vars, web_vars, config_vars,
                   translated_text, trace, generation, extracted_text,
                   parsed, structured_data, result, calls, translation, sink>>

\* lines 181-223: the span (under the parent trace or a root span) and the
\* generation; if either call raises both handles are dropped
CreateTrace ==
    /\ pc = "create_trace"
    /\ IF langfuse
       THEN \E a \in Attempts(<<
                 <<"start_span", IF parent_trace THEN "parent:handwriting_extraction"
                                 ELSE "handwriting_extraction">>,
                 <<"start_generation", "ocr_extraction">> >>) :
              /\ sink' = sink \o a.log
              /\ trace' = IF a.ok THEN "span" ELSE "None"
              /\ generation' = IF a.ok THEN "generation" ELSE "None"
       ELSE UNCHANGED <<sink, trace, generation>>
    /\ pc' = "call_vision"
    /\ UNCHANGED <<parse_vars, image_vars, upload_vars, web_vars, config_vars,
                   preprocess_raised, translated_text, prompt, image_data, extracted_text,
                   parsed, structured_data, exc, result, calls, translation,
                   image_reads>>

\* a vision request that is sent a second time after it raised
CallVision_Retrying ==
    /\ pc = "call_vision"
    /\ \/ \E t \in RunTexts :
            /\ extracted_text' = t
            /\ calls' = calls \o <<"vision_call", "vision_return">>
            /\ pc' = "update_generation"
            /\ UNCHANGED exc
       \/ \E e \in Exceptions :
            /\ exc' = e
            /\ calls' = calls \o <<"vision_call", "vision_raise">>
            /\ pc' = IF calls = <<>> THEN "call_vision" ELSE "except"
            /\ UNCHANGED extracted_text
    /\ UNCHANGED <<parse_vars, image_vars, upload_vars, web_vars, config_vars,
                   preprocess_raised, translated_text, prompt, trace, generation, image_data,
                   parsed, structured_data, result, translation, sink, image_reads>>

\* lines 225-246: the one request to the vision provider
CallVision ==
    /\ pc = "call_vision"
    /\ \/ \E t \in RunTexts :
            /\ extracted_text' = t
            /\ calls' = calls \o <<"vision_call", "vision_return">>
            /\ pc' = "update_generation"
            /\ UNCHANGED exc
       \/ \E e \in Exceptions :
            /\ exc' = e
            /\ calls' = calls \o <<"vision_call", "vision_raise">>
            /\ pc' = "except"
            /\ UNCHANGED extracted_text
    /\ UNCHANGED <<parse_vars, image_vars, upload_vars, web_vars, config_vars,
                   preprocess_raised, translated_text, prompt, trace, generation, image_data,
                   parsed, structured_data, result, translation, sink, image_reads>>

\* a generation update outside any try block: a raise of the sink reaches line 299
UpdateGeneration_Unguarded ==
    /\ pc = "update_generation"
    /\ IF generation # "None"
       THEN \E a \in Attempts(<< <<"update", "ocr_extraction">>, <<"end", "ocr_extraction">> >>) :
              /\ sink' = sink \o a.log
              /\ pc' = IF a.ok THEN "parse" ELSE "except"
              /\ exc' = IF a.ok THEN exc ELSE [type |-> "ConnectionError", msg |-> "sink unreachable"]
       ELSE UNCHANGED <<sink, exc>> /\ pc' = "parse"
    /\ UNCHANGED <<parse_vars, image_vars, upload_vars, web_vars, config_vars,
                   preprocess_raised, translated_text, prompt, trace, generation,
                   image_data, extracted_text, parsed, structured_data, result, calls,
                   translation, image_reads>>

\* lines 249-260
UpdateGeneration ==
    /\ pc = "update_generation"
    /\ IF generation # "None"
       THEN \E a \in Attempts(<< <<"update", "ocr_extraction">>, <<"end", "ocr_extraction">> >>) :
              sink' = sink \o a.log
       ELSE UNCHANGED sink
    /\ pc' = "parse"
    /\ UNCHANGED <<parse_vars, image_vars, upload_vars, web_vars, config_vars,
                   preprocess_raised, translated_text, prompt, trace, generation, image_data,
                   extracted_text, parsed, structured_data, exc, result, calls,
                   translation, image_reads>>

\* line 262
ParseResponse ==
    /\ pc = "parse"
    /\ LET r == ParseOf[extracted_text]
       IN  IF r.raised
           THEN /\ exc' = [type |-> "JSONDecodeError", msg |-> "Expecting value"]
                /\ pc' = "except"
                /\ UNCHANGED <<parsed, structured_data>>
           ELSE /\ parsed' = r.value
                /\ structured_data' = r.value
                /\ pc' = "translate"
                /\ UNCHANGED exc
    /\ UNCHANGED <<parse_vars, image_vars, upload_vars, web_vars, config_vars,
                   preprocess_raised, translated_text, prompt, trace, generation, image_data,
                   extracted_text, result, calls, translation, sink, image_reads>>

\* a translation failure that hands back an empty mapping
TranslationFailed_Empty(data) == JObject(<<>>)

\* lines 418-432: the translation call raised; the original data is returned
TranslationFailed(data) == data

\* line 417: the translation call returned text
\* a translation whose answer is dropped
TranslationReturned_Discarded(data, text) == data

\* line 417: the parse of the translation response replaces the data
TranslationReturned(data, text) ==
    LET r == ParseOf[text]
    IN  IF r.raised THEN TranslationFailed(data) ELSE r.value

\* lines 265-269 with _translate_json_to_english (lines 353-432)
Translate ==
    /\ pc = "translate"
    /\ IF NeedsTranslation(language, groq_client)
       THEN \E g \in (IF trace # "None" /\ langfuse
                      THEN Attempts(<< <<"start_generation", "translation">> >>)
                      ELSE {[log |-> <<>>, ok |-> FALSE]}) :
              \/ \E t \in RunTexts :
                 \E u \in (IF g.ok
                           THEN Attempts(<< <<"update", "translation">>, <<"end", "translation">> >>)
                           ELSE {[log |-> <<>>, ok |-> TRUE]}) :
                   /\ calls' = calls \o <<"translation_call", "translation_return">>
                   /\ translation' = "returned"
                   /\ translated_text' = t
                   /\ sink' = sink \o g.log \o u.log
                   /\ structured_data' = TranslationReturned(structured_data, t)
              \/ \E u \in (IF g.ok
                           THEN Attempts(<< <<"update", "translation">>, <<"end", "translation">> >>)
                           ELSE {[log |-> <<>>, ok |-> TRUE]}) :
                   /\ calls' = calls \o <<"translation_call", "translation_raise">>
                   /\ translation' = "raised"
                   /\ sink' = sink \o g.log \o u.log
                   /\ UNCHANGED translated_text
                   /\ structured_data' = TranslationFailed(structured_data)
       ELSE UNCHANGED <<calls, translation, sink, structured_data, translated_text>>
    /\ pc' = "succeed"
    /\ UNCHANGED <<parse_vars, image_vars, upload_vars, web_vars, config_vars,
                   preprocess_raised, prompt, trace, generation, image_data,
                   extracted_text, parsed, exc, result, image_reads>>

\* lines 271-297: the success envelope, then the span's update and end
Succeed ==
    /\ pc = "succeed"
    /\ result' = SuccessEnvelope(filename, structured_data, prompt, language)
    /\ IF trace # "None" /\ HasLen(structured_data)
       THEN \E a \in Attempts(<< <<"update", "handwriting_extraction">>,
                                 <<"end", "handwriting_extraction">> >>) :
              sink' = sink \o a.log
       ELSE UNCHANGED sink
    /\ pc' = "done"
    /\ UNCHANGED <<parse_vars, image_vars, upload_vars, web_vars, config_vars,
                   preprocess_raised, translated_text, prompt, trace, generation, image_data,
                   extracted_text, parsed, structured_data, exc, calls, translation,
                   image_reads>>

\* an except block that re-raises instead of returning the failure envelope
Fail_Propagates ==
    /\ pc = "except"
    /\ pc' = "raised"
    /\ UNCHANGED <<parse_vars, image_vars, upload_vars, web_vars, config_vars,
                   preprocess_raised, translated_text, prompt, trace, generation,
                   image_data, extracted_text, parsed, structured_data, exc, result,
                   calls, translation, sink, image_reads>>

\* lines 299-333: the failure envelope, then the error span
Fail ==
    /\ pc = "except"
    /\ result' = ErrorEnvelope(filename, exc, prompt)
    /\ IF langfuse
       THEN \E a \in Attempts(
                 (IF trace = "None"
                  THEN << <<"start_span", "handwriting_extraction_error">> >>
                  ELSE <<>>)
                 \o << <<"update", IF trace = "None" THEN "handwriting_extraction_error"
                                   ELSE "handwriting_extraction">>,
                       <<"end", IF trace = "None" THEN "handwriting_extraction_error"
                                ELSE "handwriting_extraction">> >>) :
              /\ sink' = sink \o a.log
              /\ trace' = IF trace = "None" /\ a.log[1].ok THEN "error_span" ELSE trace
       ELSE UNCHANGED <<sink, trace>>
    /\ pc' = "done"
    /\ UNCHANGED <<parse_vars, image_vars, upload_vars, web_vars, config_vars,
                   preprocess_raised, translated_text, prompt, generation, image_data,
                   extracted_text, parsed, structured_data, exc, calls, translation,
                   image_reads>>

Next ==
    \/ Entry
    \/ OpenImage
    \/ CreateTrace
    \/ CallVision
    \/ UpdateGeneration
    \/ ParseResponse
    \/ Translate
    \/ Succeed
    \/ Fail

Spec == Init /\ [][Next]_vars

\* the run is sequential code: a step that can be taken is taken, given that
\* each provider call returns or raises
SpecLive == Spec /\ WF_vars(Next)

(***************************************************************************)
(* SpecImage: preprocess_image called once on a decodable image of         *)
(* img_w x img_h pixels.  Only the size of the returned image is modelled; *)
(* mode conversion, enhancement and the median filter keep the size.       *)
(***************************************************************************)
\* line 64: the hard floor of either side
HardFloor == 28

\* line 84
min_size == 512

Max(a, b) == IF a >= b THEN a ELSE b

\* floor(log2(n)) for n >= 1
RECURSIVE Log2(_)
Log2(n) == IF n < 2 THEN 0 ELSE 1 + Log2(n \div 2)

\* 2^n mod m
RECURSIVE Pow2Mod(_, _)
Pow2Mod(n, m) == IF n = 0 THEN 1 % m ELSE (2 * Pow2Mod(n - 1, m)) % m

\* lines 85-87: int(side * scale) with scale = min_size / longer, both
\* operations in IEEE-754 binary64 (round to nearest, ties to even), for
\* 1 <= side <= longer < min_size.  scale has exponent e and a 52-bit
\* fraction: it is the quotient rounded at 2^(e-52), below the quotient by
\* rem / (longer * 2^(52-e)) when rounded down.  The product is within 2^-40
\* of side * min_size / longer; when that is no integer the truncation is its
\* floor.  When it is an integer n and scale was rounded down, the product
\* lies below n and rounds to n only if it is within half a spacing of the
\* doubles below n (2^(k-52), or 2^(k-53) when n = 2^k); otherwise it rounds
\* to a double below n and truncates to n - 1.
ScaledSide(side, longer) ==
    LET e == Log2(min_size \div longer)
        rem == Pow2Mod(Log2(min_size) + 52 - e, longer)
        n == (min_size * side) \div longer
        k == Log2(n)
        exact == (min_size * side) % longer = 0
        down == rem # 0 /\ 2 * rem < longer
        gap == IF 2^k = n THEN 4 ELSE 2
    IN  IF exact /\ down /\ gap * side * rem * 2^e > longer * 2^k
        THEN n - 1
        ELSE n

\* lines 62-65: img.resize((max(28, width), max(28, height)))
FloorGuard(size) ==
    IF size.w < HardFloor \/ size.h < HardFloor
    THEN [w |-> Max(HardFloor, size.w), h |-> Max(HardFloor, size.h)]
    ELSE size

\* an upscale that fits the image into a square of min_size
Upscale_Square(size) ==
    IF Max(size.w, size.h) < min_size
    THEN [w |-> min_size, h |-> min_size]
    ELSE size

\* lines 82-89
Upscale(size) ==
    IF Max(size.w, size.h) < min_size
    THEN [w |-> ScaledSide(size.w, Max(size.w, size.h)),
          h |-> ScaledSide(size.h, Max(size.w, size.h))]
    ELSE size

\* lines 58-91
preprocess_image(size) == Upscale(FloorGuard(size))

\* sides at and around the thresholds, and longer sides for 2:1 and 4:1 images
LandmarkSides == {98, 100, 128, 196, 256, 300, 511, 512, 513, 600}

Sides == 1..MaxSide \cup LandmarkSides

\* img.mode of the files: a JPEG or opaque PNG, and a PNG with an alpha channel
Modes == {"RGB", "RGBA"}

\* the modes that img.save(buffer, format='JPEG') writes; for any other mode
\* it raises OSError
JpegModes == {"RGB", "L"}

\* the bytes of the file itself, an image of size
OriginalBytes(size) == [bytes |-> "original", w |-> size.w, h |-> size.h]

\* a JPEG written from an image of size
Jpeg(size) == [bytes |-> "jpeg", w |-> size.w, h |-> size.h]

\* lines 106-122: preprocessing is off.  A small image is resized (which
\* loads the pixel data) and saved as JPEG; when either raises, and when the
\* image is not small, the file's bytes are read
EncodeUnprocessed(size, mode, truncated) ==
    IF size.w < HardFloor \/ size.h < HardFloor
    THEN IF truncated \/ mode \notin JpegModes
         THEN OriginalBytes(size)
         ELSE Jpeg(FloorGuard(size))
    ELSE OriginalBytes(size)

\* lines 95-104: preprocessing is on.  The first step that touches the pixel
\* data raises on a truncated file; the image is converted to RGB before it
\* is saved as JPEG
EncodePreprocessed(size, mode, truncated) ==
    IF truncated THEN OriginalBytes(size) ELSE Jpeg(preprocess_image(size))

\* lines 93-124
encode_image(preprocessing, size, mode, truncated) ==
    IF preprocessing
    THEN EncodePreprocessed(size, mode, truncated)
    ELSE EncodeUnprocessed(size, mode, truncated)

InitImage ==
    /\ img_w \in Sides
    /\ img_h \in Sides
    /\ img_mode \in Modes
    /\ img_truncated \in BOOLEAN
    /\ img_preprocessing \in BOOLEAN
    /\ sent = [bytes |-> "none", w |-> 0, h |-> 0]
    /\ img_pc = "call"
    /\ out_size = [w |-> 0, h |-> 0]
    /\ RunIdle
    /\ ParseIdle
    /\ UploadIdle
    /\ WebIdle

\* the call preprocess_image(path) on an image of img_w x img_h
Preprocess ==
    /\ img_pc = "call"
    /\ IF img_truncated
       THEN img_pc' = "raised" /\ UNCHANGED out_size
       ELSE /\ out_size' = preprocess_image([w |-> img_w, h |-> img_h])
            /\ img_pc' = "returned"
    /\ UNCHANGED <<img_w, img_h, img_mode, img_truncated, img_preprocessing, sent,
                   parse_vars, run_vars, upload_vars, web_vars>>

\* the call encode_image(path) on the same image, with
\* self.enable_preprocessing = img_preprocessing
Encode ==
    /\ img_pc = "call"
    /\ sent' = encode_image(img_preprocessing, [w |-> img_w, h |-> img_h],
                            img_mode, img_truncated)
    /\ img_pc' = "encoded"
    /\ UNCHANGED <<img_w, img_h, img_mode, img_truncated, img_preprocessing,
                   out_size, parse_vars, run_vars, upload_vars, web_vars>>

NextImage ==
    \/ Preprocess
    \/ Encode

SpecImage == InitImage /\ [][NextImage]_vars

(***************************************************************************)
(* SpecUpload: one POST /upload request handled by upload_file of          *)
(* backend/main.py, from the request to the response, with the run of      *)
(* agent.extract_handwriting in between.  The uploads directory, the       *)
(* form_data table and the trace sink are state; writing the file, deleting *)
(* it and committing the row each succeed or raise.                        *)
(***************************************************************************)
\* main.py line 25
ALLOWED_EXTENSIONS == {Chars(".jpg"), Chars(".jpeg"), Chars(".png"), Chars(".pdf")}

\* main.py line 26
MAX_FILE_SIZE == 10 * 1024 * 1024

\* pathlib's PurePath.suffix of a name without directories: from the last
\* dot on, unless the name has no dot or the last dot is its first or last
\* character
Suffix(name) ==
    LET dots == {i \in 1..Len(name) : name[i] = "."}
    IN  IF dots = {} \/ SetMax(dots) = 1 \/ SetMax(dots) = Len(name)
        THEN <<>>
        ELSE SubSeq(name, SetMax(dots), Len(name))

\* main.py line 212: file.filename or "unknown.jpg"
UploadName(name) == IF name = "" THEN "unknown.jpg" ELSE name

\* main.py line 213
FileExt(name) == Lower(Suffix(Chars(UploadName(name))))

\* a size test that also turns away a file of exactly MAX_FILE_SIZE bytes
TooLarge_Inclusive(size) == size >= MAX_FILE_SIZE

\* main.py line 262
TooLarge(size) == size > MAX_FILE_SIZE

\* main.py line 362
ErrorStatus(error_msg) == IF Contains(error_msg, "not initialized") THEN 503 ELSE 500

\* main.py lines 306-313 and 333-339
FormattedResult(res, saved, id) ==
    [success |-> res.success, filename |-> res.filename, message |-> res.message,
     extracted_data |-> res.extracted_data, saved_to_database |-> saved,
     form_id |-> IF saved THEN id ELSE 0]

\* the detail of an HTTPException
Detail(text) == [detail |-> text]

UploadNames == {"a.jpg", "scan.PNG", "doc.pdf", "x.gif", "noext", ""}

UploadSizes == {1, MAX_FILE_SIZE, MAX_FILE_SIZE + 1}

UploadLanguages == {Chars("English"), Chars("Spanish")}

InitUpload ==
    /\ ParseIdle
    /\ ImageIdle
    /\ WebIdle
    /\ agent \in BOOLEAN
    /\ langfuse_client \in BOOLEAN
    /\ hf_client \in (IF agent THEN BOOLEAN ELSE {FALSE})
    /\ groq_client \in (IF agent THEN BOOLEAN ELSE {FALSE})
    /\ langfuse \in (IF agent THEN BOOLEAN ELSE {FALSE})
    /\ enable_preprocessing \in (IF agent THEN BOOLEAN ELSE {FALSE})
    /\ image \in [decodable : BOOLEAN]
    /\ language \in UploadLanguages
    /\ filename = "" /\ parent_trace = FALSE
    /\ pc = "idle" /\ prompt = "None" /\ trace = "None" /\ generation = "None"
    /\ image_data = "None" /\ extracted_text = <<>> /\ parsed = JNull
    /\ structured_data = JNull /\ exc = [type |-> "", msg |-> ""]
    /\ result = NoResult /\ calls = <<>> /\ translation = "none"
    /\ sink = <<>> /\ image_reads = 0
    /\ preprocess_raised = FALSE /\ translated_text = <<>>
    /\ u_pc = "request"
    /\ u_name \in UploadNames
    /\ u_size \in UploadSizes
    /\ u_files = {} /\ u_writes = 0 /\ u_rows = <<>>
    /\ u_status = 0 /\ u_body = <<>>
    /\ u_db = "none" /\ u_removed = "none"

\* the handler raises HTTPException(status_code, detail) or returns the
\* JSONResponse: the request is answered
Reply(status_code, body) ==
    /\ u_status' = status_code
    /\ u_body' = body
    /\ u_pc' = "responded"

\* a cleanup that leaves the uploaded file where it is
FilesAfterRemove_Kept(files, name, removed) == files

\* main.py lines 275-278: os.remove(file_path) deletes the file or raises
FilesAfterRemove(files, name, removed) == IF removed THEN files \ {name} ELSE files

\* main.py lines 204-273: the checks, the root trace, the write of the
\* upload to uploads/<filename> and the call of agent.extract_handwriting
Receive ==
    /\ u_pc = "request"
    /\ IF ~agent
       THEN /\ Reply(503, Detail("Agent not initialized. Please ensure the Ollama service is running."))
            /\ UNCHANGED <<sink, u_files, u_writes, u_removed, pc, filename, parent_trace>>
       ELSE IF FileExt(u_name) \notin ALLOWED_EXTENSIONS
       THEN /\ Reply(400, Detail("File type not allowed"))
            /\ UNCHANGED <<sink, u_files, u_writes, u_removed, pc, filename, parent_trace>>
       ELSE IF FileExt(u_name) = Chars(".pdf")
       THEN /\ Reply(400, Detail("PDF processing requires additional setup with poppler-utils. Please upload JPG or PNG images."))
            /\ UNCHANGED <<sink, u_files, u_writes, u_removed, pc, filename, parent_trace>>
       ELSE \E t \in (IF langfuse_client
                      THEN Attempts(<< <<"start_span", "file_upload_request">> >>)
                      ELSE {[log |-> <<>>, ok |-> FALSE]}) :
              IF TooLarge(u_size)
              THEN /\ Reply(400, Detail("File size exceeds maximum allowed size"))
                   /\ sink' = sink \o t.log
                   /\ UNCHANGED <<u_files, u_writes, u_removed, pc, filename, parent_trace>>
              ELSE \/ /\ u_files' = u_files \cup {UploadName(u_name)}
                      /\ u_writes' = u_writes + 1
                      /\ sink' = sink \o t.log
                      /\ filename' = UploadName(u_name)
                      /\ parent_trace' = t.ok
                      /\ pc' = "entry"
                      /\ u_pc' = "agent"
                      /\ UNCHANGED <<u_status, u_body, u_removed>>
                   \/ \E ev \in (IF t.ok
                                 THEN Attempts(<< <<"create_event", "upload_error">> >>)
                                 ELSE {[log |-> <<>>, ok |-> TRUE]}) :
                      \E created \in BOOLEAN, removed \in BOOLEAN :
                        /\ Reply(500, Detail("Error processing file: OSError: cannot write file"))
                        /\ sink' = sink \o t.log \o ev.log
                        /\ u_writes' = IF created THEN u_writes + 1 ELSE u_writes
                        /\ u_removed' = IF ~created THEN "none"
                                        ELSE IF removed THEN "ok" ELSE "raised"
                        /\ u_files' = IF created
                                      THEN FilesAfterRemove(u_files \cup {UploadName(u_name)},
                                                            UploadName(u_name), removed)
                                      ELSE u_files
                        /\ UNCHANGED <<pc, filename, parent_trace>>
    /\ UNCHANGED <<parse_vars, image_vars, web_vars, agent, langfuse_client, u_name, u_size,
                   u_rows, u_db, hf_client, groq_client, langfuse, enable_preprocessing,
                   image, language, prompt, trace, generation, image_data,
                   extracted_text, parsed, structured_data, exc, result, calls,
                   translation, image_reads, preprocess_raised, translated_text>>

\* how the try block of main.py lines 281-288 and its handler can go: add,
\* commit and refresh return; add or commit raises; commit returns and refresh
\* raises; commit raises and the rollback of the handler raises too
DbOutcomes == {"saved", "commit_raised", "refresh_raised", "rollback_raised"}

\* the id SQLite gives a new row of form_data: one more than the largest id
\* in the table (database.py line 15 declares no AUTOINCREMENT)
NextId(rows) == IF rows = <<>> THEN 1 ELSE SetMax({rows[i].id : i \in 1..Len(rows)}) + 1

\* main.py lines 275-399: the run returned; the file is deleted, a successful
\* result is saved and answered with 200, a failed one with 503 or 500; an
\* exception that leaves the handler of the save reaches the handler of lines
\* 367-399, which deletes the file if it is still there and answers 500
Respond ==
    /\ u_pc = "agent"
    /\ pc = "done"
    /\ IF result.success
       THEN \E db \in DbOutcomes, removed \in BOOLEAN, again \in BOOLEAN :
            \E ev \in (IF parent_trace
                       THEN Attempts(<< <<"create_event",
                                          CASE db = "saved" -> "form_created"
                                            [] db = "rollback_raised" -> "upload_error"
                                            [] OTHER -> "database_error">> >>)
                       ELSE {[log |-> <<>>, ok |-> TRUE]}) :
            \E up \in (IF parent_trace /\ db # "rollback_raised"
                       THEN Attempts(<< <<"update", "file_upload_request">>,
                                        <<"end", "file_upload_request">> >>)
                       ELSE {[log |-> <<>>, ok |-> TRUE]}) :
              /\ again => (db = "rollback_raised" /\ ~removed)
              /\ u_files' = FilesAfterRemove(u_files, filename, removed \/ again)
              /\ u_removed' = IF removed \/ again THEN "ok" ELSE "raised"
              /\ u_db' = db
              /\ u_rows' = IF db \in {"saved", "refresh_raised"}
                           THEN Append(u_rows, [id |-> NextId(u_rows),
                                                form_name |-> filename,
                                                data |-> JsonDumps(result.extracted_data)])
                           ELSE u_rows
              /\ sink' = sink \o ev.log \o up.log
              /\ IF db = "rollback_raised"
                 THEN Reply(500, Detail("Error processing file: OperationalError: rollback failed"))
                 ELSE Reply(200, FormattedResult(result, db = "saved", NextId(u_rows)))
       ELSE \E removed \in BOOLEAN :
            /\ u_files' = FilesAfterRemove(u_files, filename, removed)
            /\ u_removed' = IF removed THEN "ok" ELSE "raised"
            /\ Reply(ErrorStatus(IF "error" \in DOMAIN result THEN result.error
                                 ELSE "Extraction failed"),
                     Detail(IF "error" \in DOMAIN result THEN result.error
                            ELSE "Extraction failed"))
            /\ UNCHANGED <<u_rows, sink, u_db>>
    /\ UNCHANGED <<parse_vars, image_vars, web_vars, config_vars, agent, langfuse_client,
                   u_name, u_size, u_writes, pc, prompt, trace, generation,
                   image_data, extracted_text, parsed, structured_data, exc, result,
                   calls, translation, image_reads, preprocess_raised,
                   translated_text>>

NextUpload ==
    \/ Receive
    \/ Next
    \/ Respond

SpecUpload == InitUpload /\ [][NextUpload]_vars

(***************************************************************************)
(* SpecDispatch: one request through LangfuseMiddleware.dispatch of        *)
(* backend/langfuse_middleware.py.  call_next(request) runs the handler: it *)
(* gives a response (an HTTPException of the handler arrives as a response  *)
(* with its status) or raises; each trace-sink call returns or raises.      *)
(***************************************************************************)
Requests ==
    { [method |-> "GET", path |-> "/health"],
      [method |-> "POST", path |-> "/upload"],
      [method |-> "GET", path |-> "/forms"],
      [method |-> "POST", path |-> "/forms"],
      [method |-> "PUT", path |-> "/forms/1"],
      [method |-> "DELETE", path |-> "/forms/1"] }

ResponseOf(status_code) == [kind |-> "response", status |-> status_code]

Raised == [kind |-> "raise", status |-> 0]

\* what awaiting call_next(request) can give
HandlerOutcomes == {ResponseOf(c) : c \in {200, 400, 404, 500, 503}} \cup {Raised}

InitDispatch ==
    /\ ParseIdle
    /\ RunIdle
    /\ ImageIdle
    /\ UploadIdle
    /\ AppIdle
    /\ ServiceIdle
    /\ mw_langfuse \in BOOLEAN
    /\ mw_request \in Requests
    /\ mw_pc = "request"
    /\ mw_trace = FALSE
    /\ mw_handler_runs = 0
    /\ mw_handled = NoAnswer
    /\ mw_out = NoAnswer
    /\ mw_sink = <<>>

\* lines 22-43: without a client the request goes straight to the handler;
\* with one the trace is created first, inside the try block: when that
\* raises, lines 61-76 find trace = None and raise the exception again
BeginDispatch ==
    /\ mw_pc = "request"
    /\ IF ~mw_langfuse
       THEN /\ mw_pc' = "handler"
            /\ UNCHANGED <<mw_trace, mw_sink, mw_out>>
       ELSE \E ok \in BOOLEAN :
              /\ mw_sink' = Append(mw_sink, SinkCall("trace", "api_request", ok))
              /\ mw_trace' = ok
              /\ IF ok
                 THEN mw_pc' = "handler" /\ UNCHANGED mw_out
                 ELSE mw_pc' = "done" /\ mw_out' = Raised
    /\ UNCHANGED <<parse_vars, run_vars, image_vars, upload_vars, app_vars, service_vars,
                   mw_langfuse,
                   mw_request, mw_handler_runs, mw_handled>>

\* lines 23 and 46: await call_next(request); lines 61-76 when it raises
CallNext ==
    /\ mw_pc = "handler"
    /\ mw_handler_runs' = mw_handler_runs + 1
    /\ \E h \in HandlerOutcomes :
         /\ mw_handled' = h
         /\ IF h.kind = "response"
            THEN IF mw_langfuse
                 THEN mw_pc' = "update" /\ UNCHANGED <<mw_out, mw_sink>>
                 ELSE mw_pc' = "done" /\ mw_out' = h /\ UNCHANGED mw_sink
            ELSE /\ mw_pc' = "done"
                 /\ mw_out' = Raised
                 /\ IF mw_trace
                    THEN \E ok \in BOOLEAN :
                           mw_sink' = Append(mw_sink, SinkCall("update", "api_request", ok))
                    ELSE UNCHANGED mw_sink
    /\ UNCHANGED <<parse_vars, run_vars, image_vars, upload_vars, app_vars, service_vars,
                   mw_langfuse,
                   mw_request, mw_trace>>

\* lines 48-59: the trace is updated with the status and the response is
\* returned; lines 61-76 when the update raises
UpdateTrace ==
    /\ mw_pc = "update"
    /\ IF mw_trace
       THEN \E ok \in BOOLEAN :
              IF ok
              THEN /\ mw_sink' = Append(mw_sink, SinkCall("update", "api_request", TRUE))
                   /\ mw_out' = mw_handled
              ELSE \E again \in BOOLEAN :
                     /\ mw_sink' = mw_sink \o <<SinkCall("update", "api_request", FALSE),
                                                SinkCall("update", "api_request", again)>>
                     /\ mw_out' = Raised
       ELSE /\ mw_out' = mw_handled
            /\ UNCHANGED mw_sink
    /\ mw_pc' = "done"
    /\ UNCHANGED <<parse_vars, run_vars, image_vars, upload_vars, app_vars, service_vars,
                   mw_langfuse,
                   mw_request, mw_trace, mw_handler_runs, mw_handled>>

NextDispatch ==
    \/ BeginDispatch
    \/ CallNext
    \/ UpdateTrace

SpecDispatch == InitDispatch /\ [][NextDispatch]_vars

(***************************************************************************)
(* SpecApp: the application of backend/main.py from the import of the      *)
(* module, through the lifespan startup hook, to the requests it serves.   *)
(***************************************************************************)
InitApp ==
    /\ ParseIdle
    /\ RunIdle
    /\ ImageIdle
    /\ UploadIdle
    /\ MiddlewareIdle
    /\ ServiceIdle
    /\ app_pc = "import"
    /\ app_credentials \in BOOLEAN
    /\ app_middleware = FALSE
    /\ app_served = <<>>

\* main.py lines 28-30 and 92-109: the module body runs; the globals are
\* None and LangfuseMiddleware is added if langfuse_client is set
ImportModule ==
    /\ app_pc = "import"
    /\ app_middleware' = langfuse_client
    /\ app_pc' = "startup"
    /\ UNCHANGED <<parse_vars, run_vars, image_vars, upload_vars, mw_vars, service_vars,
                   app_credentials, app_served>>

\* main.py lines 49-86: the startup half of lifespan builds the Langfuse
\* client when both keys are set, and the agent; each constructor returns or
\* raises
Startup ==
    /\ app_pc = "startup"
    /\ \E built \in (IF app_credentials THEN BOOLEAN ELSE {FALSE}) :
         langfuse_client' = built
    /\ agent' \in BOOLEAN
    /\ app_pc' = "serving"
    /\ UNCHANGED <<parse_vars, run_vars, image_vars, mw_vars, service_vars, u_pc, u_name, u_size,
                   u_files, u_writes, u_rows, u_status, u_body, u_db, u_removed,
                   app_credentials,
                   app_middleware, app_served>>

\* a request arrives and goes through the middleware stack built at import:
\* LangfuseMiddleware.dispatch sees it only if the middleware was added
Serve ==
    /\ app_pc = "serving"
    /\ Len(app_served) < MaxRequests
    /\ \E r \in Requests :
         app_served' = Append(app_served, [request |-> r, tracked |-> app_middleware])
    /\ UNCHANGED <<parse_vars, run_vars, image_vars, upload_vars, mw_vars, service_vars, app_pc,
                   app_credentials, app_middleware>>

NextApp ==
    \/ ImportModule
    \/ Startup
    \/ Serve

SpecApp == InitApp /\ [][NextApp]_vars

(***************************************************************************)
(* The /forms endpoints of main.py over the form_data table of             *)
(* database.py (SpecForms).                                                *)
(***************************************************************************)
MaxOps == 4

\* the value of a field of FormDataUpdate that the request left out
\* (main.py lines 36-38); no form name and no data text equals it
None == "None"

FormNames == {"a.jpg", "b.jpg"}

FormTexts == {"{}", "[1]"}

\* the form_id path parameters tried
FormIds == 1..2

\* database.py lines 12-19 without the timestamps
Row(id, form_name, data) == [id |-> id, form_name |-> form_name, data |-> data]

\* main.py lines 435-442: serialize_form without the timestamps
serialize_form(form) == Row(form.id, form.form_name, form.data)

\* select(FormData).where(FormData.id == form_id): the rows with that id
RowsWith(rows, form_id) == SelectSeq(rows, LAMBDA r : r.id = form_id)

\* the table with the row of that id replaced
Replaced(rows, row) == [i \in 1..Len(rows) |-> IF rows[i].id = row.id THEN row ELSE rows[i]]

\* the table without the row of that id
Without(rows, form_id) == SelectSeq(rows, LAMBDA r : r.id # form_id)

\* one create_event call of a /forms handler, inside its own try block: it is
\* made when langfuse_client is set, and is logged unless it raises
FormEvent(name) ==
    \E ok \in (IF langfuse_client THEN BOOLEAN ELSE {FALSE}) :
        f_sink' = IF ok THEN Append(f_sink, name) ELSE f_sink

\* the request is counted and remembered with the table it found
Asked(name, form_id, form_name, data) ==
    /\ f_ops < MaxOps
    /\ f_ops' = f_ops + 1
    /\ f_before' = u_rows
    /\ f_op' = [name |-> name, id |-> form_id, form_name |-> form_name, data |-> data,
                dead |-> (form_id \notin f_ever \/ form_id \in f_gone)]

\* a statement of the handler raises: rollback, nothing stored, 500
Failed ==
    /\ f_status' = 500
    /\ f_form' = NoForm
    /\ f_list' = <<>>
    /\ UNCHANGED <<u_rows, f_live, f_ever, f_gone, f_sink>>

\* HTTPException 404 of get_form, update_form and delete_form
NotFound ==
    /\ f_status' = 404
    /\ f_form' = NoForm
    /\ f_list' = <<>>
    /\ UNCHANGED <<u_rows, f_live, f_ever, f_gone, f_sink>>

InitForms ==
    /\ ParseIdle
    /\ RunIdle
    /\ ImageIdle
    /\ MiddlewareIdle
    /\ AppIdle
    /\ FormsIdle
    /\ ConcurrentIdle
    /\ u_pc = "idle" /\ agent = FALSE /\ langfuse_client \in BOOLEAN
    /\ u_name = "" /\ u_size = 0 /\ u_files = {} /\ u_writes = 0
    /\ u_rows = <<>> /\ u_status = 0 /\ u_body = <<>>
    /\ u_db = "none" /\ u_removed = "none"

\* main.py lines 401-433: POST /forms
create_form ==
    \E form_name \in FormNames, data \in FormTexts, raised \in BOOLEAN :
        /\ Asked("create", 0, form_name, data)
        /\ IF raised
           THEN Failed
           ELSE LET db_form == Row(NextId(u_rows), form_name, data) IN
                /\ u_rows' = Append(u_rows, db_form)
                /\ FormEvent("form_created_manual")
                /\ f_status' = 200
                /\ f_form' = serialize_form(db_form)
                /\ f_list' = <<>>
                /\ f_live' = {r \in f_live : r.id # db_form.id} \cup {db_form}
                /\ f_ever' = f_ever \cup {db_form.id}
                /\ UNCHANGED f_gone

\* main.py lines 444-451: GET /forms
get_all_forms ==
    \E raised \in BOOLEAN :
        /\ Asked("get_all", 0, None, None)
        /\ IF raised
           THEN Failed
           ELSE /\ f_status' = 200
                /\ f_list' = [i \in 1..Len(u_rows) |-> serialize_form(u_rows[i])]
                /\ f_form' = NoForm
                /\ UNCHANGED <<u_rows, f_live, f_ever, f_gone, f_sink>>

\* main.py lines 453-464: GET /forms/{form_id}
get_form ==
    \E form_id \in FormIds, raised \in BOOLEAN :
        /\ Asked("get", form_id, None, None)
        /\ IF raised
           THEN Failed
           ELSE LET form == RowsWith(u_rows, form_id) IN
                IF form = <<>>
                THEN NotFound
                ELSE /\ f_status' = 200
                     /\ f_form' = serialize_form(form[1])
                     /\ f_list' = <<>>
                     /\ UNCHANGED <<u_rows, f_live, f_ever, f_gone, f_sink>>

\* main.py lines 466-503: PUT /forms/{form_id}
update_form ==
    \E form_id \in FormIds, form_name \in FormNames \cup {None},
       data \in FormTexts \cup {None}, raised \in BOOLEAN :
        /\ Asked("update", form_id, form_name, data)
        /\ IF raised
           THEN Failed
           ELSE LET form == RowsWith(u_rows, form_id) IN
                IF form = <<>>
                THEN NotFound
                ELSE LET updated ==
                           Row(form[1].id,
                               IF form_name # None THEN form_name ELSE form[1].form_name,
                               IF data # None THEN data ELSE form[1].data)
                     IN /\ u_rows' = Replaced(u_rows, updated)
                        /\ FormEvent("form_updated")
                        /\ f_status' = 200
                        /\ f_form' = serialize_form(updated)
                        /\ f_list' = <<>>
                        /\ f_live' = {r \in f_live : r.id # form_id} \cup {updated}
                        /\ UNCHANGED <<f_ever, f_gone>>

\* main.py lines 505-537: DELETE /forms/{form_id}
delete_form ==
    \E form_id \in FormIds, raised \in BOOLEAN :
        /\ Asked("delete", form_id, None, None)
        /\ IF raised
           THEN Failed
           ELSE LET form == RowsWith(u_rows, form_id) IN
                IF form = <<>>
                THEN NotFound
                ELSE /\ u_rows' = Without(u_rows, form_id)
                     /\ FormEvent("form_deleted")
                     /\ f_status' = 200
                     /\ f_form' = NoForm
                     /\ f_list' = <<>>
                     /\ f_live' = {r \in f_live : r.id # form_id}
                     /\ f_gone' = f_gone \cup {form_id}
                     /\ UNCHANGED f_ever

FormsUnchanged ==
    UNCHANGED <<parse_vars, run_vars, image_vars, mw_vars, app_vars, conc_vars, u_pc,
                agent, langfuse_client, u_name, u_size, u_files, u_writes, u_status, u_body,
                u_db, u_removed>>

NextForms ==
    \/ create_form /\ FormsUnchanged
    \/ get_all_forms /\ FormsUnchanged
    \/ get_form /\ FormsUnchanged
    \/ update_form /\ FormsUnchanged
    \/ delete_form /\ FormsUnchanged

SpecForms == InitForms /\ [][NextForms]_vars

(***************************************************************************)
(* Several /upload requests with the same filename and different bytes,    *)
(* served by one event loop (SpecConcurrent).  The bytes of request r are  *)
(* written r.                                                              *)
(***************************************************************************)
MaxUploads == 3

Uploads == 1..MaxUploads

\* a handler that also gives up the event loop between its write and the
\* extraction
AwaitPoints_AfterWrite == {"await_read", "written"}

\* main.py line 228: contents = await file.read() is the only await of
\* upload_file; the positions at which the handler gives up the event loop
AwaitPoints == {"await_read"}

InitConcurrent ==
    /\ ParseIdle
    /\ RunIdle
    /\ ImageIdle
    /\ UploadIdle
    /\ MiddlewareIdle
    /\ AppIdle
    /\ FormsIdle
    /\ c_pc = [r \in Uploads |-> "new"]
    /\ c_loop = 0
    /\ c_file = 0
    /\ c_read = [r \in Uploads |-> 0]
    /\ c_status = [r \in Uploads |-> 0]

\* the handler of request r runs from one position to the next; it needs the
\* event loop, and keeps it unless it returns or reaches an await
Step(r, from, to) ==
    /\ c_pc[r] = from
    /\ c_loop \in {0, r}
    /\ c_pc' = [c_pc EXCEPT ![r] = to]
    /\ c_loop' = IF to \in AwaitPoints \cup {"done"} THEN 0 ELSE r

\* main.py lines 204-228: the checks pass and the handler awaits file.read()
Arrive(r) ==
    /\ Step(r, "new", "await_read")
    /\ UNCHANGED <<c_file, c_read, c_status>>

\* main.py lines 262-266: the upload is too large, 400
RefuseSize(r) ==
    /\ Step(r, "await_read", "done")
    /\ c_status' = [c_status EXCEPT ![r] = 400]
    /\ UNCHANGED <<c_file, c_read>>

\* main.py lines 268-270: the bytes of the request are written to
\* uploads/<filename>, over what is there
WriteFile(r) ==
    /\ Step(r, "await_read", "written")
    /\ c_file' = r
    /\ UNCHANGED <<c_read, c_status>>

\* main.py line 273: agent.extract_handwriting reads uploads/<filename>; a
\* file that is not there makes the run fail
ExtractFile(r) ==
    /\ Step(r, "written", "extracted")
    /\ c_read' = [c_read EXCEPT ![r] = c_file]
    /\ \E ok \in (IF c_file = 0 THEN {FALSE} ELSE BOOLEAN) :
         c_status' = [c_status EXCEPT ![r] = IF ok THEN 200 ELSE 500]
    /\ UNCHANGED c_file

\* main.py lines 275-278: os.remove(file_path) removes what is at the path,
\* or raises and leaves it
RemoveFile(r) ==
    /\ Step(r, "extracted", "removed")
    /\ \E removed \in BOOLEAN : c_file' = IF removed THEN 0 ELSE c_file
    /\ UNCHANGED <<c_read, c_status>>

\* main.py lines 280-363: the result is saved and the response returned
Answer(r) ==
    /\ Step(r, "removed", "done")
    /\ UNCHANGED <<c_file, c_read, c_status>>

ConcurrentUnchanged ==
    UNCHANGED <<parse_vars, run_vars, image_vars, upload_vars, mw_vars, app_vars,
                form_vars>>

NextConcurrent ==
    \/ \E r \in Uploads : Arrive(r) /\ ConcurrentUnchanged
    \/ \E r \in Uploads : RefuseSize(r) /\ ConcurrentUnchanged
    \/ \E r \in Uploads : WriteFile(r) /\ ConcurrentUnchanged
    \/ \E r \in Uploads : ExtractFile(r) /\ ConcurrentUnchanged
    \/ \E r \in Uploads : RemoveFile(r) /\ ConcurrentUnchanged
    \/ \E r \in Uploads : Answer(r) /\ ConcurrentUnchanged

SpecConcurrent == InitConcurrent /\ [][NextConcurrent]_vars

(***************************************************************************)
(* Properties of a run (Spec).                                             *)
(***************************************************************************)
Done == pc = "done"

Count(log, x) == Cardinality({i \in 1..Len(log) : log[i] = x})

\* the spellings of English among Languages, case ignored
EnglishSpellings == {Chars("English"), Chars("english"), Chars("ENGLISH")}

\* C1: when the vision provider is not configured the run returns
\* success=false with a non-empty error, and no call was made to the vision
\* provider, the translation provider or the trace sink, nor was the image read.
C1_UnconfiguredFailsWithoutCalls ==
    (Done /\ ~hf_client) =>
        /\ result.success = FALSE
        /\ "error" \in DOMAIN result /\ result.error # ""
        /\ calls = <<>>
        /\ sink = <<>>
        /\ image_reads = 0

C1_Witness ==
    /\ Done /\ ~hf_client /\ groq_client /\ langfuse
    /\ result.success = FALSE /\ calls = <<>>

\* C2: the translation provider is called exactly when the vision call
\* returned, the language is not English (case ignored) and a translation
\* provider is configured; a successful run without a translation call
\* returns the parsed extraction response unchanged.
C2_TranslationCalledIff ==
    Done =>
        /\ (Count(calls, "translation_call") > 0
              <=> /\ Count(calls, "vision_return") > 0
                  /\ language \notin EnglishSpellings
                  /\ groq_client)
        /\ (result.success /\ Count(calls, "translation_call") = 0)
              => result.extracted_data = parsed
        /\ (result.success /\ language \in EnglishSpellings)
              => Count(calls, "translation_call") = 0

C2_Witness ==
    /\ Done /\ result.success /\ groq_client
    /\ language = Chars("ENGLISH")
    /\ Count(calls, "translation_call") = 0
    /\ result.extracted_data = JObject(<<JMember(<<"a">>, JNumber(<<"1">>))>>)

\* C3: when the translation call raises, the run still returns success=true
\* with the structure parsed from the extraction response.
C3_TranslationFailureKeepsOriginal ==
    (Done /\ translation = "raised") =>
        /\ result.success = TRUE
        /\ result.extracted_data = parsed
        /\ "error" \notin DOMAIN result

C3_Witness ==
    /\ Done /\ translation = "raised" /\ result.success
    /\ language = Chars("Spanish")
    /\ result.extracted_data = JObject(<<JMember(<<"a">>, JNumber(<<"1">>))>>)

\* C4 as stated: when the vision call raises T(m) the error field is "T: m".
C4_ErrorIsTypeAndMessage ==
    (Done /\ Count(calls, "vision_raise") > 0) =>
        /\ result.success = FALSE
        /\ result.error = exc.type \o ": " \o exc.msg

\* C4 as amended: when the vision call raises T(m) the run returns
\* success=false, its error field is the message m alone, and the type name T
\* is in metadata.error_type.
C4_ErrorIsMessage ==
    (Done /\ Count(calls, "vision_raise") > 0) =>
        /\ result.success = FALSE
        /\ \E e \in Exceptions :
             /\ result.error = e.msg
             /\ result.metadata.error_type = e.type
             /\ exc = e

C4_Witness ==
    /\ Done /\ calls = <<"vision_call", "vision_raise">>
    /\ result.error = "timed out"
    /\ result.metadata.error_type = "TimeoutError"

\* C5: the vision provider and the translation provider are each called at
\* most once, a translation call comes only after the vision call returned,
\* and no translation call follows a vision failure.
C5_OneAttemptInOrder ==
    /\ Count(calls, "vision_call") <= 1
    /\ Count(calls, "translation_call") <= 1
    /\ \A i \in 1..Len(calls) :
         calls[i] = "translation_call" =>
             \E j \in 1..(i - 1) : calls[j] = "vision_return"
    /\ Count(calls, "vision_raise") > 0 => Count(calls, "translation_call") = 0

C5_Witness ==
    /\ Done
    /\ calls = <<"vision_call", "vision_return", "translation_call", "translation_raise">>

\* C6: a returned envelope is either (success, extracted_data, no error) or
\* (no success, error, no extracted_data).
C6_DataXorError ==
    Done =>
        \/ /\ result.success = TRUE
           /\ "extracted_data" \in DOMAIN result
           /\ "error" \notin DOMAIN result
        \/ /\ result.success = FALSE
           /\ "error" \in DOMAIN result
           /\ "extracted_data" \notin DOMAIN result

C6_Witness ==
    /\ Done /\ result.success = FALSE /\ hf_client
    /\ "error" \in DOMAIN result /\ "extracted_data" \notin DOMAIN result

\* C7: every returned envelope has the keys success, filename and message,
\* and its filename is the caller's.
C7_EnvelopeKeys ==
    Done =>
        /\ {"success", "filename", "message"} \subseteq DOMAIN result
        /\ result.filename = filename

(***************************************************************************)
(* Properties of _parse_json_response (SpecParse).                         *)
(***************************************************************************)
Returned == p_pc = "returned"

\* C8: the value _parse_json_response returns is a mapping, never an array,
\* number, string or null.
C8_ParseReturnsMapping == Returned => p_out.value.kind = "object"

Newline == Chars("\n")

\* the three forms C9 names for a JSON object text J, padded with whitespace
Forms(J) ==
    { l \o f \o t :
        l \in Pads, t \in Pads,
        f \in { J, FenceJson \o Newline \o J \o Newline \o Fence,
                Fence \o Newline \o J \o Newline \o Fence } }

\* no fence marker anywhere in the text
NoFenceIn(text) == \A i \in 1..(Len(text) - 2) : SubSeq(text, i, i + 2) # Fence

\* C9: a JSON object text decodes to the same object plain, in a json fence
\* and in a bare fence, whatever whitespace surrounds it; a text that is not
\* JSON and holds no fence comes back as raw_text of the stripped text.
C9_FencesAreTransparent ==
    Returned =>
        /\ \A J \in ObjectBodies :
             p_text \in Forms(J) =>
                 /\ JsonLoads(J).ok /\ JsonLoads(J).val.kind = "object"
                 /\ p_out = [raised |-> FALSE, value |-> JsonLoads(J).val]
        /\ (~JsonLoads(p_text).ok /\ NoFenceIn(p_text))
              => p_out = [raised |-> FALSE, value |-> RawText(Strip(p_text))]

C9_Witness ==
    /\ Returned
    /\ p_text = Newline \o Fence \o Newline \o Chars("{\"a\":1}") \o Newline \o Fence
    /\ p_out.value = JObject(<<JMember(<<"a">>, JNumber(<<"1">>))>>)

\* the fence markers the parser takes off the front of a stripped text: the
\* longest of none, the fence, the json fence, the json fence and a fence
LeadingMarkers(s) ==
    LET found == {o \in Openers : StartsWith(s, o)}
    IN  CHOOSE o \in found : \A q \in found : Len(q) <= Len(o)

\* the text left of a stripped text once the leading markers and one closing
\* fence are taken off and the rest is stripped again
Core(text) ==
    LET s == Strip(text)
        rest == DropFirst(s, Len(LeadingMarkers(s)))
    IN  Strip(IF EndsWith(rest, Fence) THEN DropLast(rest, Len(Fence)) ELSE rest)

\* C10 as stated: when decoding fails the parser returns raw_text of the
\* whole input, stripped of surrounding whitespace only, and does not raise.
C10_FallbackKeepsWholeText ==
    (Returned /\ ~JsonLoads(Core(p_text)).ok) =>
        p_out = [raised |-> FALSE, value |-> RawText(Strip(p_text))]

\* C10 as amended: when decoding fails the parser returns raw_text of the
\* input without its surrounding whitespace, its leading fence markers and
\* one closing fence, stripped again, and does not raise.
C10_FallbackDropsFences ==
    Returned =>
        /\ ~p_out.raised
        /\ ~JsonLoads(Core(p_text)).ok => p_out.value = RawText(Core(p_text))

C10_Witness ==
    /\ Returned
    /\ p_text = Fence \o Newline \o Chars("no json") \o Newline \o Fence
    /\ p_out.value = RawText(Chars("no json"))

(***************************************************************************)
(* More properties of a run (Spec, SpecLive).                              *)
(***************************************************************************)
\* C11: when the vision provider answers text that is no JSON (even with its
\* fences taken off) and no translation replaces it, the run succeeds and
\* extracted_data is a mapping whose only key is raw_text.
C11_NonJsonSucceedsAsRawText ==
    (/\ Done
     /\ Count(calls, "vision_return") > 0
     /\ ~JsonLoads(Core(extracted_text)).ok
     /\ translation # "returned") =>
        /\ result.success = TRUE
        /\ result.extracted_data.kind = "object"
        /\ Len(result.extracted_data.items) = 1
        /\ result.extracted_data.items[1].text = RawTextKey
        /\ result.extracted_data.items[1].items[1].kind = "string"

C11_Witness ==
    /\ Done /\ extracted_text = Chars("no json") /\ translation = "none"
    /\ result.success
    /\ result.extracted_data = RawText(Chars("no json"))

\* C14: with preprocessing enabled, a step of the normalization that raises
\* does not fail the run: the file's own bytes go into the one vision request
\* and success is decided by the vision call alone.
C14_PreprocessFailureFallsBack ==
    (enable_preprocessing /\ preprocess_raised) =>
        /\ image_data = "original_bytes"
        /\ pc = "except" => Count(calls, "vision_raise") > 0
        /\ Done => /\ Count(calls, "vision_call") = 1
                   /\ result.success <=> Count(calls, "vision_return") > 0

C14_Witness ==
    /\ Done /\ enable_preprocessing /\ preprocess_raised
    /\ image_data = "original_bytes"
    /\ calls = <<"vision_call", "vision_return">> /\ result.success

\* what a run returns and which provider calls it makes, told from the
\* configuration, the arguments, the image and what the providers did, without
\* looking at the trace sink, the parent trace or any handle
Untraced ==
    IF ~hf_client
    THEN [success |-> FALSE, error |-> "HuggingFace client not initialized",
          data |-> JNull, calls |-> <<>>]
    ELSE IF ~image.decodable
    THEN [success |-> FALSE, error |-> "cannot identify image file",
          data |-> JNull, calls |-> <<>>]
    ELSE IF exc \in Exceptions
    THEN [success |-> FALSE, error |-> exc.msg,
          data |-> JNull, calls |-> <<"vision_call", "vision_raise">>]
    ELSE LET translate == language \notin EnglishSpellings /\ groq_client
             answered == translate /\ translation = "returned"
         IN  [success |-> TRUE, error |-> "",
              data |-> parse_json_response(IF answered THEN translated_text
                                           ELSE extracted_text).value,
              calls |-> <<"vision_call", "vision_return">>
                          \o (IF translate
                              THEN <<"translation_call",
                                     IF answered THEN "translation_return"
                                     ELSE "translation_raise">>
                              ELSE <<>>)]

\* the same four things as the run produced them
Observed ==
    [success |-> result.success,
     error |-> IF "error" \in DOMAIN result THEN result.error ELSE "",
     data |-> IF "extracted_data" \in DOMAIN result THEN result.extracted_data ELSE JNull,
     calls |-> calls]

\* C15: the success flag, extracted_data, error and the provider calls of a
\* run are those of the same run without tracing, whichever trace-sink calls
\* raise and whether or not a parent trace is given.
C15_EnvelopeIgnoresTraceSink == Done => Observed = Untraced

C15_Witness ==
    /\ Done /\ langfuse /\ parent_trace /\ result.success
    /\ translation = "returned"
    /\ \E i \in 1..Len(sink) : ~sink[i].ok
    /\ \E i \in 1..Len(sink) : sink[i].ok

\* C16: the success message says "translated to English" exactly when the
\* translation provider was called and returned.
C16_MessageTellsTranslation ==
    (Done /\ result.success) =>
        (Contains(result.message, "translated to English") <=> translation = "returned")

\* C17: every run ends, with an envelope that says success or failure; no
\* exception leaves the function.
C17_RunEndsWithEnvelope ==
    /\ <>Done
    /\ [](Done => /\ result # NoResult
                  /\ "success" \in DOMAIN result
                  /\ result.success \in BOOLEAN)

C17_Witness ==
    /\ Done /\ exc.type = "UnidentifiedImageError"
    /\ result.success = FALSE /\ result.error = "cannot identify image file"

(***************************************************************************)
(* Properties of preprocess_image (SpecImage).                             *)
(***************************************************************************)
Resized == img_pc = "returned"

\* C12: the returned image is no smaller than the input on either side, has
\* both sides >= 28 and a longer side >= 512, and a longer side of exactly
\* 512 when the input's longer side is below 512.
C12_SizeFloors ==
    Resized =>
        /\ out_size.w >= img_w /\ out_size.h >= img_h
        /\ out_size.w >= HardFloor /\ out_size.h >= HardFloor
        /\ Max(out_size.w, out_size.h) >= min_size
        /\ Max(img_w, img_h) < min_size => Max(out_size.w, out_size.h) = min_size

\* a size [ow, oh] has the ratio of [w, h] to within one pixel on either
\* side: some real factor s has |ow - s*w| <= 1 and |oh - s*h| <= 1
RatioKept(w, h, ow, oh) ==
    /\ ow * h - oh * w <= w + h
    /\ oh * w - ow * h <= w + h

\* C13 as stated: the returned image has the input's aspect ratio to within
\* one pixel on either side, for every input size.
C13_RatioKeptAlways ==
    Resized => RatioKept(img_w, img_h, out_size.w, out_size.h)

\* C13 (amended): the returned image has, to within one pixel on either
\* side, the aspect ratio of the input with each side below 28 raised to 28;
\* for an input with both sides >= 28 that is the input's own ratio.
C13_RatioKeptAboveFloor ==
    Resized => RatioKept(Max(HardFloor, img_w), Max(HardFloor, img_h),
                         out_size.w, out_size.h)

C13_Witness ==
    /\ Resized /\ img_w = 30 /\ img_h = 100
    /\ out_size = [w |-> 153, h |-> 512]

(***************************************************************************)
(* Properties of an /upload request (SpecUpload).                          *)
(***************************************************************************)
Responded == u_pc = "responded"

\* the request reached agent.extract_handwriting
Extracted == Responded /\ pc = "done"

\* C18: /upload answers 200 with the envelope when extraction succeeds, 503
\* when no extraction provider is configured, and 500 when the extraction
\* provider call fails, whatever the text of its error.
C18_StatusByOutcome ==
    /\ (Responded /\ ~agent) => u_status = 503
    /\ Extracted =>
         /\ result.success =>
              /\ u_status = 200
              /\ u_body.success /\ u_body.extracted_data = result.extracted_data
         /\ ~hf_client => u_status = 503
         /\ Count(calls, "vision_raise") > 0 => u_status = 500

\* the upload fails one of the three checks of the claim
Refused ==
    \/ FileExt(u_name) \notin ALLOWED_EXTENSIONS
    \/ FileExt(u_name) = Chars(".pdf")
    \/ u_size > 10 * 1024 * 1024

\* nothing was written, no provider was called and no row was created
NothingDone == u_writes = 0 /\ u_files = {} /\ calls = <<>> /\ u_rows = <<>>

\* a file of exactly 10 MiB with an image extension is not turned away
TenMiBAccepted ==
    (/\ Responded /\ agent /\ ~Refused
     /\ u_size = 10 * 1024 * 1024) => u_status # 400

\* C19 as stated: a refused upload is answered 400 and leaves nothing; a file
\* of exactly 10 MiB is accepted.
C19_RefusedIs400 ==
    /\ (Responded /\ Refused) => (u_status = 400 /\ NothingDone)
    /\ TenMiBAccepted

\* C19 (amended): a refused upload is answered 400 when the agent object
\* exists and 503 when it does not, and in both cases leaves nothing; a file
\* of exactly 10 MiB is accepted.
C19_RefusedIs400WhenAgentExists ==
    /\ (Responded /\ Refused) =>
          (u_status = (IF agent THEN 400 ELSE 503) /\ NothingDone)
    /\ TenMiBAccepted

C19_Witness ==
    /\ Responded /\ agent /\ langfuse_client
    /\ u_name = "scan.PNG" /\ u_size = 10 * 1024 * 1024 + 1
    /\ u_status = 400 /\ NothingDone
    /\ sink # <<>>

\* C20: an upload whose bytes are no image is answered with a 4xx status and
\* no provider call is made for it.
C20_UndecodableIs4xx ==
    (Extracted /\ ~image.decodable) =>
        /\ u_status >= 400 /\ u_status < 500
        /\ calls = <<>>

(***************************************************************************)
(* More properties of _parse_json_response (SpecParse).                    *)
(***************************************************************************)
\* the stripped text with at most one leading marker and at most one
\* trailing marker taken off, stripped again
OneMarkerOff(text) ==
    LET s == Strip(text)
        opened == IF StartsWith(s, FenceJson) THEN DropFirst(s, JsonFenceLen)
                  ELSE IF StartsWith(s, Fence) THEN DropFirst(s, FenceLen)
                  ELSE s
    IN  Strip(IF EndsWith(opened, Fence) THEN DropLast(opened, FenceLen) ELSE opened)

\* C21: the parser takes off at most one leading fence marker and at most
\* one trailing one: its result is the decoding of the text with one marker
\* off each end, or raw_text of that text, so that a second leading marker
\* stays in the text.
C21_AtMostOneLeadingMarker ==
    Returned =>
        LET t == OneMarkerOff(p_text)
            r == JsonLoads(t)
        IN  /\ ~p_out.raised
            /\ p_out.value = IF r.ok THEN r.val ELSE RawText(t)

(***************************************************************************)
(* Properties of encode_image (SpecImage).                                 *)
(***************************************************************************)
Encoded == img_pc = "encoded"

SmallImage == img_w < HardFloor \/ img_h < HardFloor

\* C22: with preprocessing off, encode_image sends the file's own bytes when
\* both sides are >= 28 and otherwise a re-encoded image of size
\* (max(28, w), max(28, h)); with preprocessing on or off, an image with a
\* side below 28 is sent only when the resize itself raised.
C22_FloorGuardAlwaysApplied ==
    Encoded =>
        /\ (~img_preprocessing /\ ~SmallImage) =>
              sent = [bytes |-> "original", w |-> img_w, h |-> img_h]
        /\ (~img_preprocessing /\ SmallImage /\ ~img_truncated) =>
              sent = [bytes |-> "jpeg", w |-> Max(HardFloor, img_w),
                      h |-> Max(HardFloor, img_h)]
        /\ (sent.w < HardFloor \/ sent.h < HardFloor) => img_truncated

(***************************************************************************)
(* Properties of LangfuseMiddleware.dispatch (SpecDispatch).               *)
(***************************************************************************)
Dispatched == mw_pc = "done"

\* C23: whatever the trace sink does inside dispatch, the handler runs
\* exactly once and the client gets what the handler gave.
C23_SinkFailureKeepsOutcome ==
    Dispatched =>
        /\ mw_handler_runs = 1
        /\ mw_out = mw_handled

(***************************************************************************)
(* Properties of the application start (SpecApp).                          *)
(***************************************************************************)
\* C24: when the Langfuse credentials are configured (and the client was
\* built from them), LangfuseMiddleware is registered and every request
\* served is tracked by it.
C24_RequestsTrackedWhenConfigured ==
    (app_pc = "serving" /\ app_credentials /\ langfuse_client) =>
        /\ app_middleware
        /\ \A i \in 1..Len(app_served) : app_served[i].tracked

(***************************************************************************)
(* More properties of an /upload request (SpecUpload).                     *)
(***************************************************************************)
\* C25: a row is created exactly when extraction succeeded and the commit
\* succeeded; it holds the filename and the serialized extracted_data, and the
\* response carries its id with saved_to_database = true; when the save fails
\* the response is 200 with the same data, saved_to_database = false, and no
\* row is left; a failed extraction creates no row.
C25_RowIffSaved ==
    Responded =>
        /\ u_rows # <<>> <=>
              (Extracted /\ result.success /\ u_db \in {"saved", "refresh_raised"})
        /\ u_rows # <<>> =>
              /\ Len(u_rows) = 1
              /\ u_rows[1].form_name = filename
              /\ u_rows[1].data = JsonDumps(result.extracted_data)
              /\ JsonLoads(u_rows[1].data).val = result.extracted_data
              /\ u_body.saved_to_database
              /\ u_body.form_id = u_rows[1].id
        /\ (Extracted /\ result.success /\ u_db # "saved") =>
              /\ u_status = 200
              /\ u_body.extracted_data = result.extracted_data
              /\ ~u_body.saved_to_database
              /\ u_rows = <<>>
        /\ (Extracted /\ ~result.success) => u_rows = <<>>

\* C28: once an /upload request that wrote uploads/<filename> has been
\* answered, whether with the envelope, with 500 or 503 after a failed
\* extraction, after a failed save or after an unexpected exception, the file
\* is no longer there, provided deleting it did not fail.
C28_WrittenFileIsGone ==
    (Responded /\ u_writes > 0 /\ u_removed # "raised") =>
        /\ u_removed = "ok"
        /\ UploadName(u_name) \notin u_files

\* a request whose save failed is answered after its file was deleted
C28_Witness ==
    /\ Responded /\ u_writes = 1 /\ u_removed = "ok"
    /\ u_db = "commit_raised" /\ u_status = 200
    /\ u_files = {}

(***************************************************************************)
(* Properties of the /forms endpoints (SpecForms).                         *)
(***************************************************************************)
\* the last request was answered by the database
Answered == f_op.name # "none" /\ f_status # 500

\* C26: over any sequence of create, get, update and delete requests, a get,
\* update or delete of an id that was never created or was already deleted
\* is answered with 404 and leaves the stored forms unchanged; a get of a live
\* id returns the form_name and data of its latest create or update; an
\* update that omits form_name or data leaves that field and the id
\* unchanged; and GET /forms returns exactly the created and not deleted forms.
C26_FormsRefineStore ==
    Answered =>
        /\ (f_op.name \in {"get", "update", "delete"} /\ f_op.dead) =>
              /\ f_status = 404
              /\ u_rows = f_before
        /\ (f_op.name = "get" /\ ~f_op.dead) =>
              /\ f_status = 200
              /\ f_form \in f_live
        /\ (f_op.name = "update" /\ ~f_op.dead) =>
              /\ f_status = 200
              /\ f_form.id = f_op.id
              /\ f_op.form_name = None =>
                    f_form.form_name = RowsWith(f_before, f_op.id)[1].form_name
              /\ f_op.data = None =>
                    f_form.data = RowsWith(f_before, f_op.id)[1].data
              /\ RowsWith(u_rows, f_op.id) = <<f_form>>
        /\ f_op.name = "get_all" =>
              /\ {f_list[i] : i \in 1..Len(f_list)} = f_live
              /\ Len(f_list) = Cardinality(f_live)

(***************************************************************************)
(* Properties of concurrent uploads (SpecConcurrent).                      *)
(***************************************************************************)
\* C27: when requests upload different bytes under the same filename, under
\* every interleaving the event loop allows, the extraction of each request
\* reads exactly the bytes that request uploaded, and no request deletes or
\* overwrites the file of another before it has been read.
C27_EachReadsItsOwnBytes ==
    \A r \in DOMAIN c_pc :
        /\ c_pc[r] = "written" => c_file = r
        /\ c_pc[r] \in {"extracted", "removed", "done"} /\ c_status[r] # 400 =>
              c_read[r] = r

\* request 2 is suspended in its await while request 1 has written and read
\* its file, and request 1 did read its own bytes
C27_Witness ==
    /\ c_pc # <<>>
    /\ c_pc[1] = "extracted" /\ c_read[1] = 1
    /\ c_pc[2] = "await_read"

(***************************************************************************)
(* More properties of a run (Spec).                                        *)
(***************************************************************************)
\* every call made to the trace sink returned
SinkNeverRaised == \A i \in 1..Len(sink) : sink[i].ok

\* the span or generation a sink call is about; a span started under a
\* parent trace is the handwriting_extraction span
RecordOf(c) == IF c.on = "parent:handwriting_extraction" THEN "handwriting_extraction" ELSE c.on

\* number of times the span or generation was started in the run
Starts(name) ==
    Cardinality({i \in 1..Len(sink) :
        /\ sink[i].op \in {"start_span", "start_generation"}
        /\ RecordOf(sink[i]) = name})

\* number of times the span or generation was ended in the run
Ends(name) ==
    Cardinality({i \in 1..Len(sink) : sink[i].op = "end" /\ RecordOf(sink[i]) = name})

\* C29: when tracing is configured and the trace sink never raises, every
\* span and generation the run started (handwriting_extraction span,
\* ocr_extraction generation, translation generation) was ended exactly once
\* when the run returns, on the success path, when the extraction provider
\* raises and when the translation provider raises.
C29_StartedRecordsAreEnded ==
    (Done /\ langfuse /\ SinkNeverRaised) =>
        \A name \in {"handwriting_extraction", "ocr_extraction", "translation"} :
            Starts(name) > 0 => Ends(name) = 1

\* the translation response is no JSON document once its fences are removed
NotJson(text) == ~JsonLoads(Unfenced(text)).ok

\* C30: in a successful run extracted_data is the parse of the extraction
\* response when translation was skipped or raised, and the parse of the
\* translation response when the translation call returned; when that
\* response is not valid JSON, extracted_data is the raw_text object
\* _parse_json_response makes of the translation text, and the envelope holds
\* nothing of the structure parsed from the extraction response.
C30_DataComesFromLastParse ==
    (Done /\ result.success) =>
        /\ translation \in {"none", "raised"} =>
              result.extracted_data = parse_json_response(extracted_text).value
        /\ translation = "returned" =>
              /\ result.extracted_data = parse_json_response(translated_text).value
              /\ NotJson(translated_text) =>
                    /\ result.extracted_data = RawText(Unfenced(translated_text))
                    /\ DOMAIN result = {"success", "filename", "extracted_data",
                                        "prompt", "message"}

\* the extraction response was a JSON object, the translation answered with
\* fenced text that is no JSON, and the envelope holds the raw_text object
C30_Witness ==
    /\ Done /\ result.success /\ translation = "returned"
    /\ extracted_text = Chars("{\"n\":\"o\"}")
    /\ parsed.kind = "object"
    /\ translated_text = Fence \o Chars("\nno\n") \o Fence
    /\ result.extracted_data = RawText(Chars("no"))
    /\ result.extracted_data # parsed

====
